---- MODULE Spec2Model ----
(***************************************************************************)
(* The match engine of src/server.js: one global `state` object, advanced  *)
(* by the POST handlers, with a bounded undo history of deep copies.       *)
(*                                                                         *)
(* Each handler is an operator from (state, request) to the state it       *)
(* leaves behind and the response it sends; the action of that name       *)
(* applies it to the variables.  A handler that throws (a TypeError on a   *)
(* missing record) keeps the assignments made before the throw and answers *)
(* with Express's 500.                                                     *)
(***************************************************************************)
EXTENDS Integers, Sequences, FiniteSets, TLC

VARIABLES state, allPlayerNames, response, script, steps

vars == <<state, allPlayerNames, response, script, steps>>

(***************************************************************************)
(* Values                                                                  *)
(***************************************************************************)
\* JavaScript null and undefined, where a name is expected
NULL == "null"
UNDEFINED == "undefined"

Truthy(v) == v # NULL /\ v # UNDEFINED

MAX_HISTORY == 10

\* free steps the environment may take once it has left its script
MaxSteps == 2

BallsPerOver == 6

\* setupPhase values
PhaseTeams == 1
PhaseInningsSetup == 3
PhaseLive == 4
PhaseFinished == 5


\* Array.prototype.sort on the names in use (code-unit order)
NameRank == ("A1" :> 1) @@ ("A2" :> 2) @@ ("A3" :> 3) @@ ("B1" :> 4) @@ ("B2" :> 5)

RECURSIVE InsertSorted(_, _)
InsertSorted(x, sq) ==
  IF sq = <<>> THEN <<x>>
  ELSE IF NameRank[x] < NameRank[Head(sq)] THEN <<x>> \o sq
  ELSE <<Head(sq)>> \o InsertSorted(x, Tail(sq))

RECURSIVE SortNames(_)
SortNames(sq) == IF sq = <<>> THEN <<>> ELSE InsertSorted(Head(sq), SortNames(Tail(sq)))

\* parseInt on the request strings in use; a string outside the table is NaN
ParseIntTable ==
  ("0" :> 0) @@ ("1" :> 1) @@ ("2" :> 2) @@ ("3" :> 3) @@ ("4" :> 4) @@ ("6" :> 6)
    @@ ("7" :> 7) @@ ("-1" :> -1) @@ ("-2" :> -2)
isNaN(str) == str \notin DOMAIN ParseIntTable
parseInt(str) == ParseIntTable[str]

\* String.prototype.split('.') on the matchOvers strings in use
SplitTable ==
  ("1.0" :> <<"1", "0">>) @@ ("0.2" :> <<"0", "2">>) @@ ("0.7" :> <<"0", "7">>)
    @@ ("1" :> <<"1">>)

Min(a, b) == IF a < b THEN a ELSE b

\* JavaScript's %: the result takes the sign of the dividend
JsRem(a, b) == IF a >= 0 THEN a % b ELSE -((-a) % b)

(***************************************************************************)
(* The state object                                                        *)
(***************************************************************************)
ZeroInningsScore == [score |-> 0, wickets |-> 0, balls |-> 0, battingTeam |-> NULL]

InitialState(catalog) ==
  [ matchStarted |-> FALSE,
    setupPhase |-> PhaseTeams,
    teams |-> [teamA |-> [name |-> "Team A"], teamB |-> [name |-> "Team B"]],
    innings |-> 1,
    innings1Score |-> ZeroInningsScore,
    target |-> 0,
    matchBallLimit |-> 0,
    finalResult |-> NULL,
    battingTeam |-> NULL,
    bowlingTeam |-> NULL,
    score |-> 0,
    wickets |-> 0,
    balls |-> 0,
    players |-> << >>,
    bowlers |-> << >>,
    striker |-> NULL,
    nonStriker |-> NULL,
    currentBowler |-> NULL,
    awaitingNewBatsman |-> FALSE,
    awaitingNewBowler |-> FALSE,
    lastOverBowler |-> NULL,
    lastManStandingMode |-> FALSE,
    battingOrder |-> << >>,
    nextBatsmanIndex |-> 2,
    allPlayerNames |-> catalog,
    playerLists |-> [teamA |-> << >>, teamB |-> << >>],
    log |-> << >>,
    stateHistory |-> << >>,
    fallOfWickets |-> << >> ]

(***************************************************************************)
(* Helpers                                                                 *)
(***************************************************************************)
\* JSON.parse(JSON.stringify(state)): a deep copy in which an undefined array
\* element becomes null and a property whose value is undefined is dropped.
\* A dropped striker/nonStriker keeps the marker UNDEFINED in the copy; undo's
\* Object.assign skips it.
JsonCopy(s) ==
  [s EXCEPT !.battingOrder = [i \in DOMAIN @ |-> IF @[i] = UNDEFINED THEN NULL ELSE @[i]]]

\* takeSnapshot that never drops a snapshot
takeSnapshotNoShift(s) ==
  LET snapshot == [JsonCopy(s) EXCEPT !.stateHistory = << >>]
  IN  [s EXCEPT !.stateHistory = Append(s.stateHistory, snapshot)]

takeSnapshot(s) ==
  LET snapshot == [JsonCopy(s) EXCEPT !.stateHistory = << >>]
      pushed == Append(s.stateHistory, snapshot)
  IN  [s EXCEPT !.stateHistory =
         IF Len(pushed) > MAX_HISTORY THEN Tail(pushed) ELSE pushed]

\* log(msg), without the wall-clock prefix
log(s, msg) == [s EXCEPT !.log = Append(@, msg)]

\* players are keyed by name; a falsy name creates nothing
ensurePlayerExists(s, name) ==
  IF ~Truthy(name) \/ name \in DOMAIN s.players THEN s
  ELSE [s EXCEPT !.players = @ @@ (name :>
          [name |-> name, runs |-> 0, ballsFaced |-> 0, fours |-> 0, sixes |-> 0,
           out |-> FALSE, outReason |-> NULL])]

HasBowler(s, name) == \E i \in DOMAIN s.bowlers : s.bowlers[i].name = name
BowlerIndex(s, name) == CHOOSE i \in DOMAIN s.bowlers : s.bowlers[i].name = name

ensureBowlerExists(s, name) ==
  IF ~Truthy(name) \/ HasBowler(s, name) THEN s
  ELSE [s EXCEPT !.bowlers = Append(@,
          [name |-> name, totalBalls |-> 0, runsConceded |-> 0, wickets |-> 0,
           maidens |-> 0])]

formatOvers(balls) ==
  ToString(balls \div BallsPerOver) \o "." \o ToString(balls % BallsPerOver)

\* [state.striker, state.nonStriker] = [state.nonStriker, state.striker]
swapStrike(s) == [s EXCEPT !.striker = s.nonStriker, !.nonStriker = s.striker]

TeamKeys == {"teamA", "teamB"}

\* what a handler hands back: the state it leaves and the response it sends
Reply(s, event, status, message) ==
  [st |-> s, res |-> [event |-> event, status |-> status, message |-> message]]

\* an uncaught TypeError: Express answers 500, assignments already made stay
Throw(s, event) == Reply(s, event, 500, "Internal Server Error")

(***************************************************************************)
(* Match end check                                                         *)
(***************************************************************************)
\* finishMatch that forgets to store the result
finishMatchNoResult(s, msg) ==
  [log(s, msg) EXCEPT !.matchStarted = FALSE, !.setupPhase = PhaseFinished]

\* marks the match finished with result msg
finishMatch(s, msg) ==
  [log(s, msg) EXCEPT !.matchStarted = FALSE, !.setupPhase = PhaseFinished,
                      !.finalResult = msg]

\* checkForMatchEnd(res): [ended, threw, st, message].  state.playerLists of a
\* batting team that is no key of it is undefined, and its .length throws.
checkForMatchEnd(s) ==
  IF s.innings # 2 THEN [ended |-> FALSE, threw |-> FALSE, st |-> s, message |-> ""]
  ELSE IF s.battingTeam \notin TeamKeys
  THEN [ended |-> FALSE, threw |-> TRUE, st |-> s, message |-> ""]
  ELSE
    LET totalPlayers == Len(s.playerLists[s.battingTeam])
        allOut == s.wickets >= totalPlayers
        isMatchLimitReached == s.matchBallLimit > 0 /\ s.balls >= s.matchBallLimit
    IN  IF s.score >= s.target
        THEN LET wicketsLeft == totalPlayers - s.wickets
                 msg == s.teams[s.battingTeam].name \o " WIN by "
                          \o ToString(wicketsLeft) \o " wickets!"
             IN  [ended |-> TRUE, threw |-> FALSE, st |-> finishMatch(s, msg),
                  message |-> "Match ended (target chased)"]
        ELSE IF (isMatchLimitReached \/ allOut) /\ s.score < s.target
        THEN IF s.bowlingTeam \notin TeamKeys
             THEN [ended |-> FALSE, threw |-> TRUE, st |-> s, message |-> ""]
             ELSE
             LET runsDiff == s.target - 1 - s.score
                 reason == IF isMatchLimitReached /\ allOut
                             THEN "All Out and Overs Complete"
                           ELSE IF isMatchLimitReached THEN "Overs Complete"
                           ELSE "All Out"
                 lower == IF isMatchLimitReached /\ allOut
                            THEN "all out and overs complete"
                          ELSE IF isMatchLimitReached THEN "overs complete"
                          ELSE "all out"
                 msg == s.teams[s.bowlingTeam].name \o " WIN by "
                          \o ToString(runsDiff) \o " runs! (" \o reason \o ")"
             IN  [ended |-> TRUE, threw |-> FALSE, st |-> finishMatch(s, msg),
                  message |-> "Match ended (" \o lower \o ")"]
        ELSE [ended |-> FALSE, threw |-> FALSE, st |-> s, message |-> ""]

\* the tail shared by the scoring handlers:
\*   if (checkForMatchEnd(res)) return;  res.json({ message, state })
endCheckThenReply(s, event, message) ==
  LET c == checkForMatchEnd(s)
  IN  IF c.threw THEN Throw(s, event)
      ELSE IF c.ended THEN Reply(c.st, event, 200, c.message)
      ELSE Reply(s, event, 200, message)

(***************************************************************************)
(* POST /api/createTeams                                                   *)
(***************************************************************************)
\* teamA, teamB: the names in the request body, NULL when absent.  catalog is
\* the global allPlayerNames, which the handler sorts in place.
createTeams(s, catalog, teamA, teamB) ==
  LET s1 == takeSnapshot(s)
      sorted == SortNames(catalog)
      s2 == [s1 EXCEPT
               !.teams = [teamA |-> [name |-> IF Truthy(teamA) THEN teamA ELSE "Team A"],
                          teamB |-> [name |-> IF Truthy(teamB) THEN teamB ELSE "Team B"]],
               !.innings = 1,
               !.innings1Score = ZeroInningsScore,
               !.target = 0,
               !.matchBallLimit = 0,
               !.finalResult = NULL,
               !.battingTeam = NULL,
               !.bowlingTeam = NULL,
               !.score = 0,
               !.wickets = 0,
               !.balls = 0,
               !.players = << >>,
               !.bowlers = << >>,
               !.striker = NULL,
               !.nonStriker = NULL,
               !.currentBowler = NULL,
               !.awaitingNewBatsman = FALSE,
               !.awaitingNewBowler = FALSE,
               !.lastOverBowler = NULL,
               !.lastManStandingMode = FALSE,
               !.battingOrder = << >>,
               !.nextBatsmanIndex = 2,
               !.fallOfWickets = << >>,
               !.log = << >>,
               !.setupPhase = PhaseInningsSetup,
               !.allPlayerNames = sorted,
               !.playerLists = [teamA |-> sorted, teamB |-> sorted]]
      s3 == log(s2, "Teams created: " \o s2.teams.teamA.name \o " vs "
                      \o s2.teams.teamB.name)
  IN  Reply(s3, "createTeams", 200, "Teams created")

(***************************************************************************)
(* POST /api/setTeamsAndMatch                                              *)
(***************************************************************************)
\* the legal-ball count of a matchOvers string "<overs>.<balls>"
parseMatchOvers(matchOvers) ==
  LET oversString == IF Truthy(matchOvers) THEN matchOvers ELSE "0"
  IN  IF oversString = "0" THEN 0
      ELSE LET parts == SplitTable[oversString]
               fullOvers == IF isNaN(parts[1]) THEN 0 ELSE parseInt(parts[1])
               ballsInCurrentOver ==
                 IF Len(parts) < 2 \/ isNaN(parts[2]) THEN 0 ELSE parseInt(parts[2])
           IN  (fullOvers * BallsPerOver) + Min(5, ballsInCurrentOver)

setTeamsAndMatch(s, battingTeam, openingStriker, openingNonStriker, startingBowler, matchOvers) ==
  IF ~Truthy(battingTeam) \/ ~Truthy(openingStriker) \/ ~Truthy(openingNonStriker)
       \/ ~Truthy(startingBowler)
  THEN Reply(s, "setTeamsAndMatch", 400, "Missing required parameters for match start")
  ELSE IF s.setupPhase # PhaseInningsSetup
  THEN Reply(s, "setTeamsAndMatch", 400, "Cannot start match: Not in Innings Setup phase")
  ELSE
    LET s1 == takeSnapshot(s)
        s2 == [s1 EXCEPT
                 !.matchBallLimit = parseMatchOvers(matchOvers),
                 !.finalResult = NULL,
                 !.battingTeam = battingTeam,
                 !.bowlingTeam = IF battingTeam = "teamA" THEN "teamB" ELSE "teamA"]
        s3 == ensureBowlerExists(
                ensurePlayerExists(ensurePlayerExists(s2, openingStriker),
                                   openingNonStriker),
                startingBowler)
        s4 == [s3 EXCEPT
                 !.striker = openingStriker,
                 !.nonStriker = openingNonStriker,
                 !.currentBowler = startingBowler,
                 !.battingOrder = <<openingStriker, openingNonStriker>>,
                 !.nextBatsmanIndex = 2,
                 !.awaitingNewBatsman = FALSE,
                 !.awaitingNewBowler = FALSE,
                 !.lastManStandingMode = FALSE,
                 !.fallOfWickets = << >>,
                 !.matchStarted = TRUE,
                 !.setupPhase = PhaseLive]
        s5 == IF s4.matchBallLimit > 0
                THEN log(s4, "Match limit set to " \o formatOvers(s4.matchBallLimit)
                               \o " overs.")
                ELSE s4
    IN  \* state.teams[state.battingTeam].name in the last log line
        IF battingTeam \notin TeamKeys THEN Throw(s5, "setTeamsAndMatch")
        ELSE Reply(log(s5, "Innings " \o ToString(s5.innings) \o " started. "
                             \o s5.teams[battingTeam].name \o " batting."),
                   "setTeamsAndMatch", 200, "Innings started")

(***************************************************************************)
(* POST /api/endInnings                                                    *)
(***************************************************************************)
ManualEndResult == "MATCH ENDED MANUALLY. No official result recorded."

\* a target that is the first innings' score itself
chaseTargetNoExtraRun(score) == score

\* the target the side batting second must reach
chaseTarget(score) == score + 1

\* an innings record that forgets the wickets
inningsScoreNoWickets(s) ==
  [score |-> s.score, wickets |-> 0, balls |-> s.balls, battingTeam |-> s.battingTeam]

\* the record endInnings keeps of the innings just played
inningsScore(s) ==
  [score |-> s.score, wickets |-> s.wickets, balls |-> s.balls, battingTeam |-> s.battingTeam]

endInnings(s) ==
  IF s.innings = 2
  THEN LET c == checkForMatchEnd(s)
       IN  IF c.threw THEN Throw(s, "endInnings")
           ELSE IF c.ended THEN Reply(c.st, "endInnings", 200, c.message)
           ELSE Reply(log([s EXCEPT !.matchStarted = FALSE,
                                    !.setupPhase = PhaseFinished,
                                    !.finalResult = ManualEndResult],
                          "Innings 2 ended manually. Match finished."),
                      "endInnings", 200, "Innings 2 ended. Match Finished.")
  ELSE IF s.innings # 1
  THEN Reply(s, "endInnings", 400, "Can only end innings 1 or 2")
  ELSE
    LET s1 == takeSnapshot(s)
        s2 == [s1 EXCEPT
                 !.innings1Score = inningsScore(s),
                 !.target = chaseTarget(s.score),
                 !.innings = 2,
                 !.matchStarted = FALSE,
                 !.setupPhase = PhaseInningsSetup,
                 !.battingTeam = s.bowlingTeam,
                 !.bowlingTeam = s.battingTeam,
                 !.score = 0,
                 !.wickets = 0,
                 !.balls = 0,
                 !.striker = NULL,
                 !.nonStriker = NULL,
                 !.currentBowler = NULL,
                 !.bowlers = << >>,
                 !.players = << >>,
                 !.finalResult = NULL,
                 !.awaitingNewBatsman = FALSE,
                 !.awaitingNewBowler = FALSE,
                 !.lastOverBowler = NULL,
                 !.lastManStandingMode = FALSE,
                 !.battingOrder = << >>,
                 !.nextBatsmanIndex = 2,
                 !.fallOfWickets = << >>]
    IN  \* state.teams[state.battingTeam].name in the log line
        IF s2.battingTeam \notin TeamKeys THEN Throw(s2, "endInnings")
        ELSE Reply(log(s2, "Innings 1 ended. Target for "
                             \o s2.teams[s2.battingTeam].name \o ": "
                             \o ToString(s2.target)),
                   "endInnings", 200, "Innings 1 ended. Setup innings 2")

(***************************************************************************)
(* POST /api/run/:value                                                    *)
(***************************************************************************)
\* endOfOver that leaves the batsmen at their ends
endOfOverNoSwap(s) ==
  LET s2 == [s EXCEPT !.lastOverBowler = s.currentBowler,
                      !.awaitingNewBowler = TRUE,
                      !.matchStarted = FALSE]
  IN  log(s2, "End of over " \o formatOvers(s2.balls) \o " - awaiting next bowler")

\* endOfOver that does not wait for the next bowler
endOfOverNoWait(s) ==
  LET s1 == IF ~s.lastManStandingMode THEN swapStrike(s) ELSE s
  IN  log([s1 EXCEPT !.lastOverBowler = s1.currentBowler],
          "End of over " \o formatOvers(s1.balls) \o " - awaiting next bowler")

\* the end-of-over block of the run handler
endOfOver(s) ==
  LET s1 == IF ~s.lastManStandingMode THEN swapStrike(s) ELSE s
      s2 == [s1 EXCEPT !.lastOverBowler = s1.currentBowler,
                       !.awaitingNewBowler = TRUE,
                       !.matchStarted = FALSE]
  IN  log(s2, "End of over " \o formatOvers(s2.balls) \o " - awaiting next bowler")

\* rotateOnOdd that logs the rotation and leaves the batsmen where they are
rotateOnOddNoSwap(s, runs) ==
  IF runs % 2 = 1
  THEN IF ~s.lastManStandingMode
       THEN log(s, "Strike rotated (odd runs)")
       ELSE log(s, "Strike not rotated (Last Man Standing)")
  ELSE s

\* rotateOnOdd that rotates in Last Man Standing too
rotateOnOddAlways(s, runs) ==
  IF runs % 2 = 1 THEN log(swapStrike(s), "Strike rotated (odd runs)") ELSE s

\* odd runs rotate the strike unless Last Man Standing
rotateOnOdd(s, runs) ==
  IF runs % 2 = 1
  THEN IF ~s.lastManStandingMode
       THEN log(swapStrike(s), "Strike rotated (odd runs)")
       ELSE log(s, "Strike not rotated (Last Man Standing)")
  ELSE s

\* run that does not count fours and sixes
runNoBoundaryCount(s, value) ==
  IF ~s.matchStarted THEN Reply(s, "run", 400, "Match not started")
  ELSE IF s.awaitingNewBatsman
  THEN Reply(s, "run", 400, "Awaiting new batsman selection")
  ELSE IF s.awaitingNewBowler
  THEN Reply(s, "run", 400, "Awaiting next bowler selection")
  ELSE
    LET s1 == takeSnapshot(s)
    IN  IF isNaN(value) \/ parseInt(value) < 0
        THEN Reply(s1, "run", 400, "Invalid runs")
        ELSE IF ~Truthy(s1.striker) \/ ~Truthy(s1.currentBowler)
        THEN Reply(s1, "run", 400, "Striker/bowler not set")
        ELSE
          LET runs == parseInt(value)
              bat == s1.striker
              s2 == ensureBowlerExists(ensurePlayerExists(s1, bat), s1.currentBowler)
              bow == BowlerIndex(s2, s2.currentBowler)
              s3 == [s2 EXCEPT
                       !.players[bat].runs = @ + runs,
                       !.players[bat].ballsFaced = @ + 1,
                       !.bowlers[bow].totalBalls = @ + 1,
                       !.bowlers[bow].runsConceded = @ + runs,
                       !.score = @ + runs,
                       !.balls = @ + 1]
              s4 == log(s3, bat \o " scored " \o ToString(runs))
              s5 == rotateOnOdd(s4, runs)
              s6 == IF s5.balls % BallsPerOver = 0 THEN endOfOver(s5) ELSE s5
          IN  endCheckThenReply(s6, "run", "Run updated")

run(s, value) ==
  IF ~s.matchStarted THEN Reply(s, "run", 400, "Match not started")
  ELSE IF s.awaitingNewBatsman
  THEN Reply(s, "run", 400, "Awaiting new batsman selection")
  ELSE IF s.awaitingNewBowler
  THEN Reply(s, "run", 400, "Awaiting next bowler selection")
  ELSE
    LET s1 == takeSnapshot(s)
    IN  IF isNaN(value) \/ parseInt(value) < 0
        THEN Reply(s1, "run", 400, "Invalid runs")
        ELSE IF ~Truthy(s1.striker) \/ ~Truthy(s1.currentBowler)
        THEN Reply(s1, "run", 400, "Striker/bowler not set")
        ELSE
          LET runs == parseInt(value)
              bat == s1.striker
              s2 == ensureBowlerExists(ensurePlayerExists(s1, bat), s1.currentBowler)
              bow == BowlerIndex(s2, s2.currentBowler)
              s3 == [s2 EXCEPT
                       !.players[bat].runs = @ + runs,
                       !.players[bat].ballsFaced = @ + 1,
                       !.players[bat].fours = IF runs = 4 THEN @ + 1 ELSE @,
                       !.players[bat].sixes = IF runs = 6 THEN @ + 1 ELSE @,
                       !.bowlers[bow].totalBalls = @ + 1,
                       !.bowlers[bow].runsConceded = @ + runs,
                       !.score = @ + runs,
                       !.balls = @ + 1]
              s4 == log(s3, bat \o " scored " \o ToString(runs))
              s5 == rotateOnOdd(s4, runs)
              s6 == IF s5.balls % BallsPerOver = 0 THEN endOfOver(s5) ELSE s5
          IN  endCheckThenReply(s6, "run", "Run updated")

(***************************************************************************)
(* POST /api/wicket                                                        *)
(***************************************************************************)
\* wicketType: the request's wicketType, NULL when absent
wicket(s, wicketType) ==
  IF ~s.matchStarted THEN Reply(s, "wicket", 400, "Match not started")
  ELSE IF s.awaitingNewBatsman
  THEN Reply(s, "wicket", 400, "Already awaiting new batsman")
  ELSE IF s.awaitingNewBowler
  THEN Reply(s, "wicket", 400, "Awaiting next bowler selection")
  ELSE
    LET s1 == takeSnapshot(s)
    IN  IF ~Truthy(wicketType) THEN Reply(s1, "wicket", 400, "wicketType required")
        \* bat is null for a falsy striker: bat.out = true throws
        ELSE IF ~Truthy(s1.striker)
        THEN Throw(ensureBowlerExists(s1, s1.currentBowler), "wicket")
        ELSE
          LET bat == s1.striker
              s2 == ensureBowlerExists(ensurePlayerExists(s1, bat), s1.currentBowler)
              s3 == [s2 EXCEPT
                       !.players[bat].out = TRUE,
                       !.players[bat].outReason = wicketType,
                       !.players[bat].ballsFaced = @ + 1]
          IN  \* bow is null for a falsy bowler: bow.totalBalls++ throws
              IF ~Truthy(s3.currentBowler) THEN Throw(s3, "wicket")
              ELSE
                LET bow == BowlerIndex(s3, s3.currentBowler)
                    s4 == [s3 EXCEPT
                             !.bowlers[bow].totalBalls = @ + 1,
                             !.bowlers[bow].wickets = @ + 1,
                             !.wickets = @ + 1,
                             !.balls = @ + 1]
                    s5 == [s4 EXCEPT !.fallOfWickets = Append(@,
                             [player |-> bat, wicketType |-> wicketType,
                              score |-> s4.score, wickets |-> s4.wickets,
                              overs |-> formatOvers(s4.balls)])]
                    s6 == log(s5, bat \o " OUT (" \o wicketType \o ")")
                IN  \* state.playerLists[state.battingTeam].length
                    IF s6.battingTeam \notin TeamKeys THEN Throw(s6, "wicket")
                    ELSE IF s6.lastManStandingMode
                    THEN LET s7 == log([s6 EXCEPT !.striker = NULL,
                                                  !.nonStriker = NULL,
                                                  !.matchStarted = FALSE],
                                       "All out. Innings ended.")
                             c == checkForMatchEnd(s7)
                         IN  IF s7.innings = 2 /\ c.threw THEN Throw(s7, "wicket")
                             ELSE IF s7.innings = 2 /\ c.ended
                             THEN Reply(c.st, "wicket", 200, c.message)
                             ELSE Reply(s7, "wicket", 200, "All out. Innings ended")
                    ELSE
                      LET s7 == [s6 EXCEPT !.awaitingNewBatsman = TRUE,
                                           !.striker = NULL]
                          s8 == IF s7.balls % BallsPerOver = 0
                                  THEN [s7 EXCEPT !.awaitingNewBowler = TRUE,
                                                  !.lastOverBowler = s7.currentBowler,
                                                  !.matchStarted = FALSE]
                                  ELSE [s7 EXCEPT !.matchStarted = FALSE]
                      IN  Reply(s8, "wicket", 200, "Wicket recorded")

(***************************************************************************)
(* POST /api/newBatsman                                                    *)
(***************************************************************************)
\* name: the request's name; NULL for an explicit null, UNDEFINED when absent
newBatsman(s, name) ==
  IF ~s.awaitingNewBatsman THEN Reply(s, "newBatsman", 400, "Not awaiting new batsman")
  ELSE
    LET s1 == takeSnapshot(s)
        s2 == IF name = s1.nonStriker
                THEN log(swapStrike(s1),
                         "New batsman selection was non-striker: strike swapped.")
                ELSE LET a == ensurePlayerExists(s1, name)
                         b == [a EXCEPT
                                 !.striker = name,
                                 !.battingOrder =
                                   IF \E i \in DOMAIN @ : @[i] = name THEN @
                                   ELSE Append(@, name)]
                     IN  log(b, "New batsman: " \o name)
        s3 == [s2 EXCEPT !.awaitingNewBatsman = FALSE, !.matchStarted = TRUE]
    IN  Reply(s3, "newBatsman", 200, "New batsman added/strike swapped")

(***************************************************************************)
(* POST /api/activateLMS                                                   *)
(***************************************************************************)
activateLMS(s) ==
  IF ~s.awaitingNewBatsman
  THEN Reply(s, "activateLMS", 400,
             "Cannot activate LMS: Not currently awaiting a new batsman.")
  ELSE
    LET s1 == takeSnapshot(s)
    IN  IF ~Truthy(s1.striker) /\ ~Truthy(s1.nonStriker)
        THEN Reply(s1, "activateLMS", 400,
                   "Cannot activate LMS: No one left to bat or incorrect state.")
        ELSE
          LET s2 == IF ~Truthy(s1.striker) /\ Truthy(s1.nonStriker)
                      THEN [s1 EXCEPT !.striker = s1.nonStriker]
                      ELSE s1
              s3 == [s2 EXCEPT !.lastManStandingMode = TRUE,
                               !.nonStriker = NULL,
                               !.awaitingNewBatsman = FALSE,
                               !.matchStarted = TRUE]
          IN  Reply(log(s3, "Last Man Standing Mode activated manually (forfeit remaining batsmen)."),
                    "activateLMS", 200, "Last Man Standing Mode activated")

(***************************************************************************)
(* POST /api/wide, /api/noball, /api/extras                                *)
(***************************************************************************)
\* ensureBowlerExists(state.currentBowler).<field> += n, under if (currentBowler)
addToBowler(s, runsConceded, totalBalls) ==
  IF ~Truthy(s.currentBowler) THEN s
  ELSE LET s1 == ensureBowlerExists(s, s.currentBowler)
           bow == BowlerIndex(s1, s1.currentBowler)
       IN  [s1 EXCEPT !.bowlers[bow].runsConceded = @ + runsConceded,
                      !.bowlers[bow].totalBalls = @ + totalBalls]

\* wide that counts as a legal ball
wideCountsBall(s) ==
  IF ~s.matchStarted THEN Reply(s, "wide", 400, "Match not started")
  ELSE IF s.awaitingNewBatsman THEN Reply(s, "wide", 400, "Awaiting new batsman")
  ELSE IF s.awaitingNewBowler THEN Reply(s, "wide", 400, "Awaiting next bowler")
  ELSE
    LET s1 == takeSnapshot(s)
        s2 == addToBowler([s1 EXCEPT !.score = @ + 1, !.balls = @ + 1], 1, 1)
    IN  endCheckThenReply(log(s2, "Wide (Total +1)"), "wide", "Wide recorded (+1)")

wide(s) ==
  IF ~s.matchStarted THEN Reply(s, "wide", 400, "Match not started")
  ELSE IF s.awaitingNewBatsman THEN Reply(s, "wide", 400, "Awaiting new batsman")
  ELSE IF s.awaitingNewBowler THEN Reply(s, "wide", 400, "Awaiting next bowler")
  ELSE
    LET s1 == takeSnapshot(s)
        s2 == addToBowler([s1 EXCEPT !.score = @ + 1], 1, 1)
    IN  endCheckThenReply(log(s2, "Wide (Total +1)"), "wide", "Wide recorded (+1)")

\* noball without the guard on awaitingNewBowler
noballNoBowlerGuard(s) ==
  IF ~s.matchStarted THEN Reply(s, "noball", 400, "Match not started")
  ELSE IF s.awaitingNewBatsman THEN Reply(s, "noball", 400, "Awaiting new batsman")
  ELSE
    LET s1 == takeSnapshot(s)
        s2 == addToBowler([s1 EXCEPT !.score = @ + 1], 1, 0)
    IN  endCheckThenReply(log(s2, "No-ball (Total +1)"), "noball",
                          "No Ball recorded (+1)")

noball(s) ==
  IF ~s.matchStarted THEN Reply(s, "noball", 400, "Match not started")
  ELSE IF s.awaitingNewBatsman THEN Reply(s, "noball", 400, "Awaiting new batsman")
  ELSE IF s.awaitingNewBowler THEN Reply(s, "noball", 400, "Awaiting next bowler")
  ELSE
    LET s1 == takeSnapshot(s)
        s2 == addToBowler([s1 EXCEPT !.score = @ + 1], 1, 0)
    IN  endCheckThenReply(log(s2, "No-ball (Total +1)"), "noball",
                          "No Ball recorded (+1)")

\* odd total rotates the strike unless Last Man Standing
rotateOnOddExtra(s, totalExtra, kind) ==
  IF JsRem(totalExtra, 2) = 1 /\ ~s.lastManStandingMode
  THEN log(swapStrike(s), "Strike rotated (odd total runs on " \o kind \o ")")
  ELSE s

\* type, extraRuns: the request's fields, NULL when absent
extras(s, type, extraRuns) ==
  IF ~s.matchStarted THEN Reply(s, "extras", 400, "Match not started")
  ELSE IF s.awaitingNewBatsman THEN Reply(s, "extras", 400, "Awaiting new batsman")
  ELSE IF s.awaitingNewBowler THEN Reply(s, "extras", 400, "Awaiting next bowler")
  ELSE
    LET s1 == takeSnapshot(s)
    IN  IF type # "wide" /\ type # "noball"
        THEN Reply(s1, "extras", 400, "Invalid extra type")
        ELSE
          LET extra == IF isNaN(extraRuns) THEN 0 ELSE parseInt(extraRuns)
              totalExtra == 1 + extra
              s2 == addToBowler([s1 EXCEPT !.score = @ + 1], 1, 0)
          IN  IF type = "noball"
              THEN LET s3 == IF Truthy(s2.striker)
                               THEN LET a == ensurePlayerExists(s2, s2.striker)
                                    IN  [a EXCEPT !.players[s2.striker].runs = @ + extra]
                               ELSE s2
                       s4 == addToBowler(s3, extra, 0)
                       s5 == log([s4 EXCEPT !.score = @ + extra],
                                 "No-ball +" \o ToString(extra) \o " (Total +"
                                   \o ToString(totalExtra) \o ")")
                   IN  endCheckThenReply(rotateOnOddExtra(s5, totalExtra, "no-ball"),
                                         "extras", "Extras recorded")
              ELSE LET s3 == addToBowler(s2, extra, 0)
                       s4 == [s3 EXCEPT !.score = @ + extra]
                       s5 == IF Truthy(s4.currentBowler)
                               THEN log(addToBowler(s4, 0, 1),
                                        "Bowler total balls incremented for wide.")
                               ELSE s4
                       s6 == log(s5, "Wide +" \o ToString(extra) \o " (Total +"
                                       \o ToString(totalExtra) \o ")")
                   IN  endCheckThenReply(rotateOnOddExtra(s6, totalExtra, "wide"),
                                         "extras", "Extras recorded")

(***************************************************************************)
(* POST /api/selectBowler                                                  *)
(***************************************************************************)
\* selectBowler that resumes play whether or not a bowler was awaited
selectBowlerAlwaysResumes(s, bowler) ==
  IF ~Truthy(bowler) THEN Reply(s, "selectBowler", 200, "No bowler provided")
  ELSE IF ~s.lastManStandingMode /\ (bowler = s.striker \/ bowler = s.nonStriker)
  THEN Reply(s, "selectBowler", 400,
             "Bowler cannot be one of the current batsmen (striker or non-striker).")
  ELSE
    LET s1 == takeSnapshot(s)
        s2 == [ensureBowlerExists(s1, bowler) EXCEPT !.currentBowler = bowler]
    IN  Reply(log([s2 EXCEPT !.awaitingNewBowler = FALSE,
                             !.lastOverBowler = NULL,
                             !.matchStarted = TRUE],
                  "Next bowler selected: " \o bowler),
              "selectBowler", 200, "resumed")

\* bowler: the request's bowler, NULL when absent
selectBowler(s, bowler) ==
  IF ~Truthy(bowler) THEN Reply(s, "selectBowler", 200, "No bowler provided")
  ELSE IF ~s.lastManStandingMode /\ (bowler = s.striker \/ bowler = s.nonStriker)
  THEN Reply(s, "selectBowler", 400,
             "Bowler cannot be one of the current batsmen (striker or non-striker).")
  ELSE
    LET s1 == takeSnapshot(s)
        s2 == [ensureBowlerExists(s1, bowler) EXCEPT !.currentBowler = bowler]
    IN  IF s2.awaitingNewBowler
        THEN Reply(log([s2 EXCEPT !.awaitingNewBowler = FALSE,
                                  !.lastOverBowler = NULL,
                                  !.matchStarted = TRUE],
                       "Next bowler selected: " \o bowler),
                   "selectBowler", 200, "resumed")
        ELSE Reply(log(s2, "Bowler changed to " \o bowler),
                   "selectBowler", 200, "changed")

(***************************************************************************)
(* POST /api/changeStrike                                                  *)
(***************************************************************************)
\* action, name: the request's fields, NULL when absent
changeStrike(s, action, name) ==
  IF ~s.matchStarted THEN Reply(s, "changeStrike", 400, "Match not started")
  ELSE
    LET s1 == takeSnapshot(s)
    IN  IF action = "swap"
        THEN IF ~Truthy(s1.striker) \/ ~Truthy(s1.nonStriker)
             THEN Reply(s1, "changeStrike", 400,
                        "Cannot swap. Striker or Non-Striker is missing")
             ELSE Reply(log(swapStrike(s1), "Strike swapped manually"),
                        "changeStrike", 200, "Strike swapped")
        ELSE IF action = "set_striker"
        THEN IF ~Truthy(name)
             THEN Reply(s1, "changeStrike", 400, "Player name required")
             ELSE
               LET s2 == ensurePlayerExists(s1, name)
               IN  IF s2.players[name].out
                   THEN Reply(s2, "changeStrike", 400, "already out (striker)")
                   ELSE IF s2.nonStriker = name
                   THEN Reply(log(swapStrike(s2),
                                  "Strike set to " \o name \o " (was non-striker)"),
                              "changeStrike", 200, "Striker changed")
                   ELSE IF s2.striker # name
                   THEN Reply(log([s2 EXCEPT
                                     !.nonStriker = IF Truthy(s2.striker)
                                                      THEN s2.striker ELSE @,
                                     !.striker = name],
                                  "Strike changed - new striker: " \o name),
                              "changeStrike", 200, "Striker changed")
                   ELSE Reply(s2, "changeStrike", 200, "Striker changed")
        ELSE IF action = "set_non_striker"
        THEN IF ~Truthy(name)
             THEN Reply(s1, "changeStrike", 400, "Player name required")
             ELSE
               LET s2 == ensurePlayerExists(s1, name)
               IN  IF s2.players[name].out
                   THEN Reply(s2, "changeStrike", 400, "already out (non-striker)")
                   ELSE IF s2.striker = name
                   THEN Reply(s2, "changeStrike", 400,
                              "currently the striker. Cannot set as non-striker.")
                   ELSE Reply(log([s2 EXCEPT !.nonStriker = name],
                                  "Non-Striker set to: " \o name),
                              "changeStrike", 200, "Non-Striker changed")
        ELSE Reply(s1, "changeStrike", 400, "Invalid action")

(***************************************************************************)
(* POST /api/undo                                                          *)
(***************************************************************************)
\* Object.assign(state, lastState): every property the copy has overwrites the
\* live one; a property dropped from the copy keeps its live value
assignSnapshot(s, lastState) ==
  [lastState EXCEPT
     !.striker = IF @ = UNDEFINED THEN s.striker ELSE @,
     !.nonStriker = IF @ = UNDEFINED THEN s.nonStriker ELSE @]

\* undo that writes to the log before refusing an empty history
undoLogsRefusal(s) ==
  IF Len(s.stateHistory) = 0
  THEN Reply(log(s, "No history to undo"), "undo", 400, "No history to undo")
  ELSE
    LET lastState == s.stateHistory[Len(s.stateHistory)]
        currentHistory == SubSeq(s.stateHistory, 1, Len(s.stateHistory) - 1)
        s1 == [assignSnapshot(s, lastState) EXCEPT !.stateHistory = currentHistory]
        s2 == IF Len(s1.log) > 0
                THEN [s1 EXCEPT !.log = SubSeq(@, 1, Len(@) - 1)]
                ELSE s1
    IN  Reply(log(s2, "Last action UNDONE"), "undo", 200, "Undo successful")

undo(s) ==
  IF Len(s.stateHistory) = 0 THEN Reply(s, "undo", 400, "No history to undo")
  ELSE
    LET lastState == s.stateHistory[Len(s.stateHistory)]
        currentHistory == SubSeq(s.stateHistory, 1, Len(s.stateHistory) - 1)
        s1 == [assignSnapshot(s, lastState) EXCEPT !.stateHistory = currentHistory]
        s2 == IF Len(s1.log) > 0
                THEN [s1 EXCEPT !.log = SubSeq(@, 1, Len(@) - 1)]
                ELSE s1
    IN  Reply(log(s2, "Last action UNDONE"), "undo", 200, "Undo successful")

(***************************************************************************)
(* POST /api/reset                                                         *)
(***************************************************************************)
\* players.json as loadPlayers finds it: missing, or a list of names
FileMissing == <<"ENOENT">>

\* loadPlayers(): a missing file leaves the global list as it is
loadPlayers(current, file) == IF file = FileMissing THEN current ELSE file

\* reset that leaves the history of the match in place
resetKeepsHistory(catalog) ==
  Reply([InitialState(catalog) EXCEPT !.stateHistory = <<InitialState(catalog)>>],
        "reset", 200, "Reset done")

reset(catalog) == Reply(InitialState(catalog), "reset", 200, "Reset done")

(***************************************************************************)
(* Requests                                                                *)
(***************************************************************************)
\* a request: the handler's name and its parameters, as strings
E(kind, args) == [kind |-> kind, args |-> args]

\* players.json as the process finds it when it starts
StartupFile == <<"B1", "A2", "A1">>

\* players.json as a later read may find it
PlayerFiles == { FileMissing, StartupFile }

CreateTeamsInputs == { <<NULL, NULL>>, <<"Lions", "Tigers">> }

\* battingTeam, openingStriker, openingNonStriker, startingBowler, matchOvers
SetTeamsInputs ==
  { <<"teamA", "A1", "A2", "B1", NULL>>,
    <<"teamB", "A1", "A2", "B1", NULL>>,
    <<"teamB", "A1", "A2", "B1", "0.2">>,
    <<"teamA", "A1", "A2", "B1", "1.0">>,
    <<"teamA", "A1", "A2", "B1", "0.7">>,
    <<"teamA", "A1", "A1", "B1", NULL>>,
    <<"teamA", "A1", "A2", "A1", NULL>>,
    <<"teamC", "A1", "A2", "B1", NULL>>,
    <<"teamA", "A1", NULL, "B1", NULL>> }

RunInputs == { "0", "1", "2", "4", "6", "-1", "x" }

WicketInputs == { "bowled", NULL }

\* type, extraRuns
ExtrasInputs ==
  { <<"wide", NULL>>, <<"wide", "1">>, <<"noball", "0">>, <<"noball", "1">>,
    <<"noball", "-2">>, <<"bye", "1">>, <<NULL, NULL>> }

NewBatsmanInputs == { "A1", "A2", "A3", NULL, UNDEFINED }

SelectBowlerInputs == { "B1", "B2", "A1", "A2", NULL }

\* action, name
ChangeStrikeInputs ==
  { <<"swap", NULL>>, <<"flip", NULL>>,
    <<"set_striker", "A1">>, <<"set_striker", "A2">>, <<"set_striker", "A3">>,
    <<"set_striker", NULL>>,
    <<"set_non_striker", "A1">>, <<"set_non_striker", "A2">>,
    <<"set_non_striker", "A3">>, <<"set_non_striker", NULL>> }

(***************************************************************************)
(* The client: it plays one of the scripts below from the start, and may   *)
(* leave it at any point for up to MaxSteps requests of its own choosing.  *)
(***************************************************************************)
Create == E("createTeams", <<"Lions", "Tigers">>)
StartA == E("setTeamsAndMatch", <<"teamA", "A1", "A2", "B1", NULL>>)
StartB == E("setTeamsAndMatch", <<"teamB", "A1", "A2", "B1", NULL>>)
StartBLimit == E("setTeamsAndMatch", <<"teamB", "A1", "A2", "B1", "0.2">>)
StartALimit == E("setTeamsAndMatch", <<"teamA", "A1", "A2", "B1", "1.0">>)
StartC == E("setTeamsAndMatch", <<"teamC", "A1", "A2", "B1", NULL>>)
Run(v) == E("run", <<v>>)
Wicket == E("wicket", <<"bowled">>)
NewBat(n) == E("newBatsman", <<n>>)
Bowler(n) == E("selectBowler", <<n>>)
LMS == E("activateLMS", << >>)
EndInn == E("endInnings", << >>)
Undo == E("undo", << >>)
Wide == E("wide", << >>)
SetStriker(n) == E("changeStrike", <<"set_striker", n>>)

Scripts ==
  { << >>,
    \* an over of singles, the next bowler, one more single
    << Create, StartA, Run("1"), Run("1"), Run("1"), Run("1"), Run("1"), Run("1"),
       Bowler("B2"), Run("1"), Undo, Undo >>,
    \* a wicket on the last ball of the over
    << Create, StartA, Run("0"), Run("4"), Run("0"), Run("6"), Run("0"), Wicket,
       NewBat("A3"), Bowler("B2"), Run("1") >>,
    \* the chase won on the last ball of an over
    << Create, StartA, EndInn, StartB, Run("0"), Run("0"), Run("0"), Run("0"),
       Run("0"), Run("1"), Bowler("B2"), Run("1") >>,
    \* second innings, every wicket of the roster falls
    << Create, StartA, Run("2"), EndInn, StartB, Wicket, NewBat("A3"), Wicket,
       NewBat("A1"), Wicket, NewBat("A2"), Wicket, EndInn, NewBat("A3"), Wide >>,
    \* Last Man Standing in the first innings, out on the last ball of the over
    << Create, StartA, Wicket, LMS, Run("1"), Run("0"), Run("0"), Wide, Run("0"),
       Wicket, EndInn >>,
    \* Last Man Standing in the second innings
    << Create, StartA, Run("1"), EndInn, StartB, Wicket, LMS, Run("1"), Wicket,
       EndInn >>,
    \* an over limit of two balls in both innings
    << Create, StartBLimit, Run("0"), Run("0"), Run("0"), EndInn, StartALimit,
       Run("0"), Run("0"), Run("0"), Run("0"), Run("0"), Run("0") >>,
    << Create, StartA, EndInn, StartBLimit, Run("0"), Run("0"), EndInn >>,
    \* teams created again in mid-innings
    << Create, StartA, Run("1"), Create, Wide, SetStriker("A1"), Bowler("B1"),
       Run("4"), Run("0"), Run("0"), Run("0"), Run("0"), Run("0"), StartA,
       Run("1") >>,
    \* the non-striker takes strike, then is out too
    << Create, StartA, Wicket, NewBat("A2"), Wicket, LMS, NewBat(NULL), Wicket >>,
    << Create, StartA, Wicket, NewBat(UNDEFINED), Undo, Undo >>,
    \* a batting team that is no team
    << Create, StartC, Wicket >>,
    \* the innings ended before it began
    << Create, EndInn, StartA, EndInn >>,
    \* more undo requests than snapshots
    << Create, Undo, Undo >> }

\* the request e is the script's next one, or a free one within the budget
Permit(e) ==
  IF script # << >> /\ e = Head(script)
  THEN script' = Tail(script) /\ steps' = steps
  ELSE steps < MaxSteps /\ script' = << >> /\ steps' = steps + 1

\* the handler's outcome r becomes the state and the response
Handled(r) == state' = r.st /\ response' = r.res

NoResponse == [event |-> "none", status |-> 0, message |-> ""]

Init ==
  /\ allPlayerNames = loadPlayers(<< >>, StartupFile)
  /\ state = InitialState(loadPlayers(<< >>, StartupFile))
  /\ response = NoResponse
  /\ script \in Scripts
  /\ steps = 0

CreateTeams ==
  \E a \in CreateTeamsInputs :
    /\ Permit(E("createTeams", a))
    /\ Handled(createTeams(state, allPlayerNames, a[1], a[2]))
    /\ allPlayerNames' = SortNames(allPlayerNames)

SetTeamsAndMatch ==
  \E a \in SetTeamsInputs :
    /\ Permit(E("setTeamsAndMatch", a))
    /\ Handled(setTeamsAndMatch(state, a[1], a[2], a[3], a[4], a[5]))
    /\ UNCHANGED allPlayerNames

EndInnings ==
  /\ Permit(E("endInnings", << >>))
  /\ Handled(endInnings(state))
  /\ UNCHANGED allPlayerNames

RecordRun ==
  \E v \in RunInputs :
    /\ Permit(E("run", <<v>>))
    /\ Handled(run(state, v))
    /\ UNCHANGED allPlayerNames

RecordWicket ==
  \E w \in WicketInputs :
    /\ Permit(E("wicket", <<w>>))
    /\ Handled(wicket(state, w))
    /\ UNCHANGED allPlayerNames

SelectNewBatsman ==
  \E n \in NewBatsmanInputs :
    /\ Permit(E("newBatsman", <<n>>))
    /\ Handled(newBatsman(state, n))
    /\ UNCHANGED allPlayerNames

ActivateLastManStanding ==
  /\ Permit(E("activateLMS", << >>))
  /\ Handled(activateLMS(state))
  /\ UNCHANGED allPlayerNames

RecordWide ==
  /\ Permit(E("wide", << >>))
  /\ Handled(wide(state))
  /\ UNCHANGED allPlayerNames

RecordNoBall ==
  /\ Permit(E("noball", << >>))
  /\ Handled(noball(state))
  /\ UNCHANGED allPlayerNames

RecordExtra ==
  \E a \in ExtrasInputs :
    /\ Permit(E("extras", a))
    /\ Handled(extras(state, a[1], a[2]))
    /\ UNCHANGED allPlayerNames

SelectBowler ==
  \E b \in SelectBowlerInputs :
    /\ Permit(E("selectBowler", <<b>>))
    /\ Handled(selectBowler(state, b))
    /\ UNCHANGED allPlayerNames

ChangeStrike ==
  \E a \in ChangeStrikeInputs :
    /\ Permit(E("changeStrike", a))
    /\ Handled(changeStrike(state, a[1], a[2]))
    /\ UNCHANGED allPlayerNames

UndoLast ==
  /\ Permit(E("undo", << >>))
  /\ Handled(undo(state))
  /\ UNCHANGED allPlayerNames

Reset ==
  \E file \in PlayerFiles :
    /\ Permit(E("reset", file))
    /\ Handled(reset(loadPlayers(allPlayerNames, file)))
    /\ allPlayerNames' = loadPlayers(allPlayerNames, file)

Next ==
  \/ CreateTeams
  \/ SetTeamsAndMatch
  \/ EndInnings
  \/ RecordRun
  \/ RecordWicket
  \/ SelectNewBatsman
  \/ ActivateLastManStanding
  \/ RecordWide
  \/ RecordNoBall
  \/ RecordExtra
  \/ SelectBowler
  \/ ChangeStrike
  \/ UndoLast
  \/ Reset

Spec == Init /\ [][Next]_vars

(***************************************************************************)
(* Any request, handed to its handler                                      *)
(***************************************************************************)
Requests ==
  {E("createTeams", a) : a \in CreateTeamsInputs}
    \cup {E("setTeamsAndMatch", a) : a \in SetTeamsInputs}
    \cup {E("run", <<v>>) : v \in RunInputs}
    \cup {E("wicket", <<w>>) : w \in WicketInputs}
    \cup {E("newBatsman", <<n>>) : n \in NewBatsmanInputs}
    \cup {E("extras", a) : a \in ExtrasInputs}
    \cup {E("selectBowler", <<b>>) : b \in SelectBowlerInputs}
    \cup {E("changeStrike", a) : a \in ChangeStrikeInputs}
    \cup {E(k, << >>) : k \in {"endInnings", "activateLMS", "wide", "noball", "undo"}}
    \cup {E("reset", f) : f \in PlayerFiles}

\* the state and response the handler of request e leaves from state s
Submit(s, catalog, e) ==
  LET a == e.args
  IN  CASE e.kind = "createTeams" -> createTeams(s, catalog, a[1], a[2])
        [] e.kind = "setTeamsAndMatch" -> setTeamsAndMatch(s, a[1], a[2], a[3], a[4], a[5])
        [] e.kind = "endInnings" -> endInnings(s)
        [] e.kind = "run" -> run(s, a[1])
        [] e.kind = "wicket" -> wicket(s, a[1])
        [] e.kind = "newBatsman" -> newBatsman(s, a[1])
        [] e.kind = "activateLMS" -> activateLMS(s)
        [] e.kind = "wide" -> wide(s)
        [] e.kind = "noball" -> noball(s)
        [] e.kind = "extras" -> extras(s, a[1], a[2])
        [] e.kind = "selectBowler" -> selectBowler(s, a[1])
        [] e.kind = "changeStrike" -> changeStrike(s, a[1], a[2])
        [] e.kind = "undo" -> undo(s)
        [] e.kind = "reset" -> reset(loadPlayers(catalog, a))

\* a response that reports success
Accepted(res) == res.status = 200 /\ res.message # "No bowler provided"

\* a response that reports a validation failure
Rejected(res) == res.status = 400 \/ res.message = "No bowler provided"

ScoringEvents == {"run", "wicket", "wide", "noball", "extras"}

\* number of names in the batting team's player list
rosterSize(s) == Len(s.playerLists[s.battingTeam])

(***************************************************************************)
(* Claims                                                                  *)
(***************************************************************************)

\* C1: a rejected submission leaves every field of the state, stateHistory
\* included, as it was before the submission.
C1_RejectedLeavesStateUnchanged ==
  [][Rejected(response') => state' = state]_vars

\* C2: from every reachable state, any accepted event other than Undo and
\* Reset followed by Undo gives back the state as it was: every field, the
\* history and the log.
C2_UndoRoundTrip ==
  \A e \in Requests :
    e.kind \notin {"undo", "reset"} =>
      LET r == Submit(state, allPlayerNames, e)
          u == undo(r.st)
      IN  Accepted(r.res) => Accepted(u.res) /\ u.st = state

\* the snapshot takeSnapshot makes of s
SnapshotOf(s) == [s EXCEPT !.stateHistory = << >>]

\* h with snapshot x pushed, the oldest entry dropped beyond MAX_HISTORY
Pushed(h, x) ==
  IF Len(h) < MAX_HISTORY THEN Append(h, x) ELSE Append(Tail(h), x)

\* C3: every accepted event other than Undo and Reset pushes exactly one
\* snapshot, equal to the state immediately before the event.
C3_AcceptedEventPushesSnapshot ==
  [][Accepted(response') /\ response'.event \notin {"undo", "reset"}
       => state'.stateHistory = Pushed(state.stateHistory, SnapshotOf(state))]_vars

\* C4: wickets never exceed the number of names in the batting team's list,
\* and no wicket is accepted once they are equal.
C4_WicketsWithinRoster ==
  state.battingTeam \in TeamKeys => state.wickets <= rosterSize(state)

\* C5: while awaitingNewBatsman or awaitingNewBowler is set, matchStarted is
\* false.
C5_PauseStopsMatch ==
  (state.awaitingNewBatsman \/ state.awaitingNewBowler) => ~state.matchStarted

\* C6: while awaitingNewBatsman or awaitingNewBowler is set, every scoring
\* request (run, wicket, wide, no-ball, extras) is rejected and leaves score,
\* wickets, balls, players and bowlers unchanged.
C6_PausedScoringRejected ==
  [][(state.awaitingNewBatsman \/ state.awaitingNewBowler)
       /\ response'.event \in ScoringEvents
       => /\ Rejected(response')
          /\ state'.score = state.score
          /\ state'.wickets = state.wickets
          /\ state'.balls = state.balls
          /\ state'.players = state.players
          /\ state'.bowlers = state.bowlers]_vars

\* a scoring request refused for the pending bowler although matchStarted is
\* true: a batsman was named after a wicket on the last ball of the over
C6_Witness ==
  /\ state.awaitingNewBowler
  /\ state.matchStarted
  /\ response.event \in ScoringEvents
  /\ response.message \in {"Awaiting next bowler", "Awaiting next bowler selection"}

\* the step completes an over with an accepted run or wicket
CompletesOver ==
  /\ Accepted(response')
  /\ response'.event \in {"run", "wicket"}
  /\ state'.balls > 0
  /\ state'.balls % BallsPerOver = 0

\* while the next bowler is awaited scoring is refused, and only an accepted
\* selectBowler or one of the requests in replacing ends the wait
BowlerWaitHolds(replacing) ==
  /\ state.awaitingNewBowler /\ response'.event \in ScoringEvents
       => Rejected(response') /\ state' = state
  /\ state.awaitingNewBowler /\ ~state'.awaitingNewBowler
       => \/ response'.event = "selectBowler" /\ Accepted(response')
          \/ response'.event \in replacing

\* C7 as claimed: an accepted run or wicket that completes an over, with or
\* without Last Man Standing, sets awaitingNewBowler, and scoring is refused
\* until a bowler is selected.
C7_OverBoundaryAnyWicket ==
  [][/\ CompletesOver => state'.awaitingNewBowler
     /\ BowlerWaitHolds({"undo", "createTeams", "endInnings", "reset"})]_vars

\* C7 amended: an accepted run, or an accepted wicket outside Last Man
\* Standing, that completes an over sets awaitingNewBowler; a Last Man
\* Standing wicket ends the innings instead (matchStarted false, no striker);
\* scoring is refused until a bowler is selected or the state is replaced,
\* which setTeamsAndMatch does too.
C7_OverBoundary ==
  [][/\ CompletesOver /\ ~(response'.event = "wicket" /\ state.lastManStandingMode)
          => state'.awaitingNewBowler
     /\ CompletesOver /\ response'.event = "wicket" /\ state.lastManStandingMode
          => ~state'.matchStarted /\ state'.striker = NULL
     /\ BowlerWaitHolds({"undo", "createTeams", "setTeamsAndMatch", "endInnings",
                         "reset"})]_vars

\* the sixth ball of an over has just been a run and the bowler is awaited
C7_Witness ==
  /\ response.event = "run"
  /\ Accepted(response)
  /\ state.balls = BallsPerOver
  /\ state.awaitingNewBowler
  /\ ~state.matchStarted

\* the innings is over: all out, or the ball limit reached
inningsOver(s) ==
  \/ s.wickets >= rosterSize(s)
  \/ s.matchBallLimit > 0 /\ s.balls >= s.matchBallLimit

\* C8: in innings 2 every accepted scoring event that reaches the target, or
\* ends the innings short of it, leaves the match finished.
C8_MatchEndsAfterScoring ==
  [][/\ Accepted(response')
     /\ response'.event \in ScoringEvents
     /\ state'.innings = 2
     /\ state'.battingTeam \in TeamKeys
     /\ \/ state'.score >= state'.target
        \/ inningsOver(state') /\ state'.score < state'.target
     => /\ state'.setupPhase = PhaseFinished
        /\ ~state'.matchStarted
        /\ state'.finalResult # NULL]_vars

\* C9: a finished match has matchStarted false, and accepts no scoring event.
C9_FinishedStaysStopped ==
  [][/\ state'.setupPhase = PhaseFinished => ~state'.matchStarted
     /\ state.setupPhase = PhaseFinished /\ response'.event \in ScoringEvents
          => ~Accepted(response')]_vars

\* C10: finalResult is non-null exactly when setupPhase is Finished.
C10_ResultIffFinished ==
  (state.finalResult # NULL) <=> (state.setupPhase = PhaseFinished)

\* the match-end check has finished a match with a result of its own
C10_Witness ==
  /\ state.setupPhase = PhaseFinished
  /\ state.finalResult # NULL
  /\ state.finalResult # ManualEndResult

\* C11: once finalResult is set, only reset, createTeams, setTeamsAndMatch
\* or undo change its value; a repeated endInnings or a scoring request
\* after the finish never replaces it.
C11_ResultSetOnce ==
  [][state.finalResult # NULL /\ state'.finalResult # state.finalResult
       => response'.event \in {"reset", "createTeams", "setTeamsAndMatch",
                               "undo"}]_vars

WinnerResults(s) ==
  { s.teams[k].name \o " WIN by " \o ToString(s.target - 1 - s.score)
      \o " runs! (" \o r \o ")" :
      k \in TeamKeys, r \in {"All Out", "Overs Complete", "All Out and Overs Complete"} }
  \cup
  { s.teams[k].name \o " WIN by " \o ToString(rosterSize(s) - s.wickets)
      \o " wickets!" : k \in TeamKeys }

\* C13: when the second innings ends, all out or at the ball limit, with
\* score = target - 1, the result stored names neither team as the winner.
C13_TieOnZeroDeficit ==
  [][/\ response'.event \in ScoringEvents \cup {"endInnings"}
     /\ state'.innings = 2
     /\ state'.battingTeam \in TeamKeys
     /\ state.setupPhase # PhaseFinished /\ state'.setupPhase = PhaseFinished
     /\ inningsOver(state')
     /\ state'.score = state'.target - 1
     => state'.finalResult \notin WinnerResults(state')]_vars

\* an accepted run of an odd value, recognised by the parity of the score
OddRunAccepted ==
  /\ response'.event = "run" /\ Accepted(response')
  /\ (state'.score - state.score) % 2 = 1

\* striker and non-striker have changed places in the step
StrikeSwapped ==
  state'.striker = state.nonStriker /\ state'.nonStriker = state.striker

\* striker and non-striker are who they were before the step
StrikeKept ==
  state'.striker = state.striker /\ state'.nonStriker = state.nonStriker

\* C14: every accepted run of an odd value outside Last Man Standing swaps
\* striker and non-striker, on the ball that completes the over too.
C14_OddRunSwapsEveryBall ==
  [][OddRunAccepted /\ ~state.lastManStandingMode => StrikeSwapped]_vars

\* C14 amended: an accepted run of an odd value outside Last Man Standing
\* swaps striker and non-striker on a ball that does not complete an over;
\* on the ball that completes an over the strike rotates a second time and
\* both batsmen end where they were.
C14_OddRunSwaps ==
  [][OddRunAccepted /\ ~state.lastManStandingMode
       => IF state'.balls % BallsPerOver = 0 THEN StrikeKept
          ELSE StrikeSwapped]_vars

\* an odd run has just completed the first over outside Last Man Standing
C14_Witness ==
  /\ response.event = "run" /\ Accepted(response)
  /\ ~state.lastManStandingMode
  /\ Len(state.log) >= 2
  /\ state.log[Len(state.log) - 1] = "Strike rotated (odd runs)"
  /\ state.log[Len(state.log)] = "End of over 1.0 - awaiting next bowler"

\* C15: while lastManStandingMode is set, no accepted run, wide, no-ball or
\* extras request changes striker or nonStriker, whatever the runs, and on
\* the ball that completes an over too.
C15_NoRotationInLastManStanding ==
  [][/\ state.lastManStandingMode
     /\ Accepted(response')
     /\ response'.event \in {"run", "extras", "wide", "noball"}
     => StrikeKept]_vars

\* an odd run has just completed an over in Last Man Standing
C15_Witness ==
  /\ state.lastManStandingMode
  /\ response.event = "run" /\ Accepted(response)
  /\ state.balls = BallsPerOver /\ state.awaitingNewBowler
  /\ Truthy(state.striker)
  /\ Len(state.log) >= 2
  /\ state.log[Len(state.log) - 1] = "Strike not rotated (Last Man Standing)"

\* C16: whenever striker and nonStriker are both set they differ; a
\* setTeamsAndMatch naming the same opener twice is rejected.
C16_StrikerDiffersFromNonStriker ==
  state.striker # NULL /\ state.nonStriker # NULL
    => state.striker # state.nonStriker

\* C17: while lastManStandingMode is set nonStriker is null; no request
\* accepted in the mode, changeStrike included, installs a second batsman.
C17_LastManHasNoPartner ==
  state.lastManStandingMode => state.nonStriker = NULL

\* C18: outside Last Man Standing a current bowler is neither the striker
\* nor the non-striker; selectBowler refuses a batsman and no other request
\* makes the bowler one of the two.
C18_BowlerIsNoBatsman ==
  ~state.lastManStandingMode /\ state.currentBowler # NULL
    => /\ state.currentBowler # state.striker
       /\ state.currentBowler # state.nonStriker

\* C19: an accepted createTeams, in mid-innings too, resets all match
\* progress, matchStarted included, and leaves the innings setup phase in
\* which every scoring request is rejected until setTeamsAndMatch is
\* accepted.
C19_CreateTeamsResetsMatch ==
  [][/\ response'.event = "createTeams" /\ Accepted(response')
          => /\ state'.score = 0 /\ state'.wickets = 0 /\ state'.balls = 0
             /\ state'.striker = NULL /\ state'.nonStriker = NULL
             /\ state'.currentBowler = NULL
             /\ ~state'.awaitingNewBatsman /\ ~state'.awaitingNewBowler
             /\ ~state'.lastManStandingMode
             /\ ~state'.matchStarted
             /\ state'.setupPhase = PhaseInningsSetup
     /\ state.setupPhase = PhaseInningsSetup /\ response'.event \in ScoringEvents
          => Rejected(response')]_vars

\* C20: a setTeamsAndMatch accepted in innings 2 leaves battingTeam and
\* bowlingTeam as endInnings fixed them, whatever team the request names; so
\* in innings 2 the batting team is never the team that batted first
\* (stated for a first innings batted by one of the two teams).
C20_SecondInningsSidesFixed ==
  [][/\ response'.event = "setTeamsAndMatch" /\ Accepted(response')
        /\ state.innings = 2 /\ state.battingTeam \in TeamKeys
        /\ state.innings1Score.battingTeam \in TeamKeys
          => /\ state'.battingTeam = state.battingTeam
             /\ state'.bowlingTeam = state.bowlingTeam
     /\ state'.innings = 2 /\ state'.battingTeam # NULL
        /\ state'.innings1Score.battingTeam \in TeamKeys
          => state'.battingTeam # state'.innings1Score.battingTeam]_vars

\* C21: endInnings accepted in innings 1 freezes innings1Score from the
\* totals before it, sets target to the score before it plus 1, moves to
\* innings 2 with the sides exchanged, zeroes score, wickets and balls,
\* empties bowlers and fallOfWickets, clears batsmen, bowler and flags, and
\* returns to the innings setup phase with matchStarted false.
C21_EndOfFirstInnings ==
  [][response'.event = "endInnings" /\ Accepted(response') /\ state.innings = 1
       => /\ state'.innings1Score =
               [score |-> state.score, wickets |-> state.wickets,
                balls |-> state.balls, battingTeam |-> state.battingTeam]
          /\ state'.target = state.score + 1
          /\ state'.innings = 2
          /\ state'.battingTeam = state.bowlingTeam
          /\ state'.bowlingTeam = state.battingTeam
          /\ state'.score = 0 /\ state'.wickets = 0 /\ state'.balls = 0
          /\ state'.bowlers = << >> /\ state'.fallOfWickets = << >>
          /\ state'.striker = NULL /\ state'.nonStriker = NULL
          /\ state'.currentBowler = NULL
          /\ ~state'.awaitingNewBatsman /\ ~state'.awaitingNewBowler
          /\ ~state'.lastManStandingMode
          /\ ~state'.matchStarted
          /\ state'.setupPhase = PhaseInningsSetup]_vars

\* the first innings has just been ended with runs, wickets and balls on
\* the board
C21_Witness ==
  /\ response.event = "endInnings" /\ Accepted(response)
  /\ state.innings = 2 /\ state.setupPhase = PhaseInningsSetup
  /\ state.innings1Score.score > 0 /\ state.innings1Score.wickets > 0
  /\ state.innings1Score.balls > 0
  /\ state.innings1Score.battingTeam = "teamA" /\ state.battingTeam = "teamB"

\* C22: endInnings in innings 2 ends the match with the ended-manually
\* result whatever score, wickets and balls are: afterwards the phase is
\* Finished, matchStarted is false and finalResult is the manual-end message.
C22_SecondInningsEndsManually ==
  [][response'.event = "endInnings" /\ Accepted(response') /\ state.innings = 2
       => /\ state'.setupPhase = PhaseFinished
          /\ ~state'.matchStarted
          /\ state'.finalResult = ManualEndResult]_vars

\* sq without its last element
Front(sq) == SubSeq(sq, 1, Len(sq) - 1)

\* C23: stateHistory never holds more than MAX_HISTORY snapshots; a push
\* onto a full history evicts the oldest snapshot and keeps the others in
\* order; each accepted undo removes the newest, so at most MAX_HISTORY
\* consecutive undo requests succeed.
C23_BoundedHistory ==
  [][LET h == state.stateHistory
         h2 == state'.stateHistory
     IN  /\ Len(h2) <= MAX_HISTORY
         /\ response'.event = "undo" /\ Accepted(response') => h2 = Front(h)
         /\ response'.event \notin {"undo", "reset"}
              => \/ h2 = h
                 \/ Len(h) < MAX_HISTORY /\ Front(h2) = h
                 \/ Len(h) = MAX_HISTORY /\ Len(h2) = MAX_HISTORY
                      /\ Front(h2) = Tail(h)]_vars

\* the history is full and the snapshot of the initial state, always the
\* first one pushed, has been evicted
C23_Witness ==
  /\ Len(state.stateHistory) = MAX_HISTORY
  /\ state.stateHistory[1].setupPhase # PhaseTeams

\* C24: undo with an empty stateHistory is rejected and leaves every field
\* of the state, the log included, unchanged.
C24_UndoOnEmptyHistory ==
  [][response'.event = "undo" /\ Len(state.stateHistory) = 0
       => Rejected(response') /\ state' = state]_vars

\* an undo has just been refused after every snapshot had been undone
C24_Witness ==
  /\ response.event = "undo" /\ Rejected(response)
  /\ Len(state.stateHistory) = 0
  /\ Len(state.log) > 0
  /\ state.log[Len(state.log)] = "Last action UNDONE"

\* C25: reset is accepted in every state and yields the initial state for
\* the catalog it loads: every field at its default, phase Teams,
\* matchStarted false, stateHistory and log empty; a second reset with the
\* same players file yields the same state again.
C25_ResetToInitialState ==
  [][/\ response'.event = "reset"
          => /\ Accepted(response')
             /\ state'.setupPhase = PhaseTeams /\ ~state'.matchStarted
             /\ state'.innings = 1 /\ state'.innings1Score = ZeroInningsScore
             /\ state'.target = 0 /\ state'.matchBallLimit = 0
             /\ state'.finalResult = NULL
             /\ state'.battingTeam = NULL /\ state'.bowlingTeam = NULL
             /\ state'.score = 0 /\ state'.wickets = 0 /\ state'.balls = 0
             /\ state'.players = << >> /\ state'.bowlers = << >>
             /\ state'.striker = NULL /\ state'.nonStriker = NULL
             /\ state'.currentBowler = NULL /\ state'.lastOverBowler = NULL
             /\ ~state'.awaitingNewBatsman /\ ~state'.awaitingNewBowler
             /\ ~state'.lastManStandingMode
             /\ state'.battingOrder = << >> /\ state'.fallOfWickets = << >>
             /\ state'.nextBatsmanIndex = 2
             /\ state'.log = << >> /\ state'.stateHistory = << >>
             /\ state'.allPlayerNames = allPlayerNames'
             /\ state'.playerLists = [teamA |-> << >>, teamB |-> << >>]
             /\ state'.teams = [teamA |-> [name |-> "Team A"],
                                teamB |-> [name |-> "Team B"]]
     /\ \A file \in PlayerFiles :
          LET once == loadPlayers(allPlayerNames, file)
              twice == loadPlayers(once, file)
          IN  reset(twice) = reset(once)]_vars

\* a reset has just wiped a match whose teams had been created
C25_Witness ==
  /\ response.event = "reset" /\ Accepted(response)
  /\ state.setupPhase = PhaseTeams /\ state.log = << >>
  /\ state.allPlayerNames = SortNames(StartupFile)

\* C26: a wicket submitted while striker or currentBowler is null is
\* rejected, and leaves players, bowlers, wickets, balls and fallOfWickets
\* unchanged.
C26_WicketNeedsStrikerAndBowler ==
  [][/\ response'.event = "wicket"
     /\ state.striker = NULL \/ state.currentBowler = NULL
     => /\ Rejected(response')
        /\ state'.players = state.players
        /\ state'.bowlers = state.bowlers
        /\ state'.wickets = state.wickets
        /\ state'.balls = state.balls
        /\ state'.fallOfWickets = state.fallOfWickets]_vars

\* C27: every request either applies in full or is rejected with a
\* structured error: none fails with an unhandled error, and none stops
\* after part of its effect.
C27_NoUnhandledError ==
  response.status # 500

\* C28: an accepted wide, no-ball or extras request leaves balls unchanged;
\* an accepted run or wicket adds exactly 1; no accepted request other than
\* endInnings, createTeams, reset and undo decreases balls.
C28_LegalBallCounter ==
  [][Accepted(response')
       => /\ response'.event \in {"wide", "noball", "extras"}
               => state'.balls = state.balls
          /\ response'.event \in {"run", "wicket"}
               => state'.balls = state.balls + 1
          /\ response'.event \notin {"endInnings", "createTeams", "reset", "undo"}
               => state'.balls >= state.balls]_vars

\* a wide has just been accepted in the middle of an over
C28_Witness ==
  /\ response.event = "wide" /\ Accepted(response)
  /\ state.balls > 0 /\ state.balls % BallsPerOver # 0
  /\ state.score > 0

\* C29: score is never negative and no accepted scoring request decreases
\* it; extras with negative extraRuns are rejected as a negative run is.
C29_ScoreNeverDecreases ==
  [][/\ state'.score >= 0
     /\ Accepted(response') /\ response'.event \in ScoringEvents
          => state'.score >= state.score]_vars

\* C30: a matchBallLimit above 0 caps the legal balls of each innings:
\* balls never exceed it, in innings 1 as in innings 2, and no run or
\* wicket is accepted once balls has reached it.
C30_BallLimitCapsInnings ==
  [][/\ state'.matchBallLimit > 0 => state'.balls <= state'.matchBallLimit
     /\ state.matchBallLimit > 0 /\ state.balls >= state.matchBallLimit
        /\ response'.event \in {"run", "wicket"}
          => ~Accepted(response')]_vars

\* the state after n requests run/1 from s, and whether all were accepted
RECURSIVE Singles(_, _)
Singles(s, n) ==
  IF n = 0 THEN [st |-> s, ok |-> TRUE]
  ELSE LET before == Singles(s, n - 1)
           r == run(before.st, "1")
       IN  [st |-> r.st, ok |-> before.ok /\ Accepted(r.res)]

\* an innings that has just been started: no ball bowled, both batsmen in,
\* a bowler set, play permitted outside Last Man Standing
FreshInnings(s) ==
  /\ s.matchStarted /\ ~s.awaitingNewBatsman /\ ~s.awaitingNewBowler
  /\ s.balls = 0 /\ ~s.lastManStandingMode
  /\ Truthy(s.striker) /\ Truthy(s.nonStriker) /\ Truthy(s.currentBowler)

\* C31: from a freshly started innings six accepted singles give balls = 6,
\* awaitingNewBowler, six runs more, and the original striker on strike.
C31_OverOfSinglesStrikerBack ==
  FreshInnings(state) /\ Singles(state, BallsPerOver).ok
    => LET after == Singles(state, BallsPerOver).st
       IN  /\ after.balls = BallsPerOver
           /\ after.awaitingNewBowler
           /\ after.score = state.score + BallsPerOver
           /\ after.striker = state.striker

\* C31 amended: from a freshly started innings six accepted singles give
\* balls = 6, awaitingNewBowler, six runs more, and the original non-striker
\* on strike with the original striker at the other end.
C31_OverOfSingles ==
  FreshInnings(state) /\ Singles(state, BallsPerOver).ok
    => LET after == Singles(state, BallsPerOver).st
       IN  /\ after.balls = BallsPerOver
           /\ after.awaitingNewBowler
           /\ after.score = state.score + BallsPerOver
           /\ after.striker = state.nonStriker
           /\ after.nonStriker = state.striker

\* six singles have just been run off the first over of the innings
C31_Witness ==
  /\ response.event = "run" /\ Accepted(response)
  /\ state.balls = BallsPerOver /\ state.score = BallsPerOver
  /\ state.awaitingNewBowler
  /\ state.striker = "A2" /\ state.nonStriker = "A1"
  /\ Len(state.log) >= 13
  /\ SubSeq(state.log, Len(state.log) - 12, Len(state.log)) =
       << "A1 scored 1", "Strike rotated (odd runs)",
          "A2 scored 1", "Strike rotated (odd runs)",
          "A1 scored 1", "Strike rotated (odd runs)",
          "A2 scored 1", "Strike rotated (odd runs)",
          "A1 scored 1", "Strike rotated (odd runs)",
          "A2 scored 1", "Strike rotated (odd runs)",
          "End of over 1.0 - awaiting next bowler" >>

\* the bowling figures of name in s, zero before the first ball
BowlerFigures(s, name) ==
  IF HasBowler(s, name) THEN s.bowlers[BowlerIndex(s, name)]
  ELSE [name |-> name, totalBalls |-> 0, runsConceded |-> 0, wickets |-> 0,
        maidens |-> 0]

\* the batting figures of name in s, zero before the first ball
BatsmanFigures(s, name) ==
  IF name \in DOMAIN s.players THEN s.players[name]
  ELSE [name |-> name, runs |-> 0, ballsFaced |-> 0, fours |-> 0, sixes |-> 0,
        out |-> FALSE, outReason |-> NULL]

\* C32: every accepted run of value v adds v to score and 1 to balls, v to
\* the striker's runs and 1 to the striker's ballsFaced, 1 to fours exactly
\* for v = 4 and to sixes exactly for v = 6, 1 to the bowler's totalBalls
\* and v to the bowler's runsConceded; an even v that does not complete an
\* over leaves striker and nonStriker as they were.
C32_RunEffects ==
  \A value \in RunInputs :
    LET r == run(state, value)
        after == r.st
    IN  Accepted(r.res)
          => LET v == parseInt(value)
                 bat == BatsmanFigures(state, state.striker)
                 bat2 == BatsmanFigures(after, state.striker)
                 bow == BowlerFigures(state, state.currentBowler)
                 bow2 == BowlerFigures(after, state.currentBowler)
             IN  /\ after.score = state.score + v
                 /\ after.balls = state.balls + 1
                 /\ bat2.runs = bat.runs + v
                 /\ bat2.ballsFaced = bat.ballsFaced + 1
                 /\ bat2.fours = bat.fours + (IF v = 4 THEN 1 ELSE 0)
                 /\ bat2.sixes = bat.sixes + (IF v = 6 THEN 1 ELSE 0)
                 /\ bow2.totalBalls = bow.totalBalls + 1
                 /\ bow2.runsConceded = bow.runsConceded + v
                 /\ v % 2 = 0 /\ after.balls % BallsPerOver # 0
                      => /\ after.striker = state.striker
                         /\ after.nonStriker = state.nonStriker

\* createTeams, setTeamsAndMatch(teamA, A1, A2, B1), run/4: the first ball
\* of the match is a four by A1
C32_Witness ==
  /\ response.event = "run" /\ Accepted(response)
  /\ state.score = 4 /\ state.balls = 1
  /\ state.striker = "A1" /\ state.nonStriker = "A2"
  /\ "A1" \in DOMAIN state.players
  /\ state.players["A1"].runs = 4 /\ state.players["A1"].fours = 1
  /\ state.players["A1"].ballsFaced = 1

\* C33: outside Last Man Standing the plain wide and the plain no-ball
\* behave as an extras request of the same kind with no extra runs: the
\* same score, the same striker and non-striker (exchanged, the total 1
\* being odd) and the same bowler figures.
C33_PlainExtraAsRecordExtra ==
  ~state.lastManStandingMode
    => /\ LET p == wide(state)
              x == extras(state, "wide", "0")
          IN  Accepted(p.res) /\ Accepted(x.res)
                => /\ p.st.score = x.st.score
                   /\ p.st.bowlers = x.st.bowlers
                   /\ p.st.striker = x.st.striker
                   /\ p.st.nonStriker = x.st.nonStriker
       /\ LET p == noball(state)
              x == extras(state, "noball", "0")
          IN  Accepted(p.res) /\ Accepted(x.res)
                => /\ p.st.score = x.st.score
                   /\ p.st.bowlers = x.st.bowlers
                   /\ p.st.striker = x.st.striker
                   /\ p.st.nonStriker = x.st.nonStriker

\* sq names nobody twice
NoDuplicates(sq) == \A i, j \in DOMAIN sq : sq[i] = sq[j] => i = j

\* name occurs in sq
Includes(sq, name) == \E i \in DOMAIN sq : sq[i] = name

\* C34: an accepted newBatsman naming the non-striker exchanges striker and
\* non-striker and leaves battingOrder alone; any other name becomes
\* striker, the non-striker stays, and the name is appended to battingOrder
\* only if absent; awaitingNewBatsman is cleared; battingOrder never holds
\* a name twice.
C34_NewBatsman ==
  [][/\ response'.event = "newBatsman" /\ Accepted(response')
          => /\ ~state'.awaitingNewBatsman
             /\ state'.striker \in {state.striker, state.nonStriker}
                  \/ state'.nonStriker = state.nonStriker
             /\ state'.striker = state.nonStriker /\ state'.nonStriker = state.striker
                  => state'.battingOrder = state.battingOrder
             /\ state'.battingOrder # state.battingOrder
                  => /\ state'.nonStriker = state.nonStriker
                     /\ ~Includes(state.battingOrder, state'.striker)
                     /\ state'.battingOrder = Append(state.battingOrder, state'.striker)
     /\ NoDuplicates(state'.battingOrder)]_vars

\* C35: activateLMS is accepted only while awaitingNewBatsman with exactly
\* one of striker and nonStriker set; with both null or both set it is
\* rejected and the state is unchanged; once accepted the remaining batsman
\* is striker, nonStriker is null, lastManStandingMode is set and
\* awaitingNewBatsman is cleared.
C35_ActivateLastManStanding ==
  [][response'.event = "activateLMS"
       => /\ Accepted(response')
               => /\ state.awaitingNewBatsman
                  /\ (state.striker = NULL) # (state.nonStriker = NULL)
                  /\ state'.striker = IF state.striker = NULL
                                        THEN state.nonStriker ELSE state.striker
                  /\ state'.nonStriker = NULL
                  /\ state'.lastManStandingMode
                  /\ ~state'.awaitingNewBatsman
          /\ (state.striker = NULL) = (state.nonStriker = NULL)
               => Rejected(response') /\ state' = state]_vars

\* C36: fallOfWickets has one entry per wicket of the current innings, the
\* k-th recording wickets = k with the score and the striker of that
\* dismissal; within an innings entries are only appended, never changed.
C36_FallOfWickets ==
  [][/\ Len(state'.fallOfWickets) = state'.wickets
     /\ \A k \in DOMAIN state'.fallOfWickets : state'.fallOfWickets[k].wickets = k
     /\ response'.event = "wicket" /\ Accepted(response')
          => /\ Len(state'.fallOfWickets) = Len(state.fallOfWickets) + 1
             /\ Front(state'.fallOfWickets) = state.fallOfWickets
             /\ state'.fallOfWickets[Len(state'.fallOfWickets)].player = state.striker
             /\ state'.fallOfWickets[Len(state'.fallOfWickets)].score = state.score
     /\ response'.event \notin {"wicket", "undo", "reset", "createTeams",
                                "endInnings", "setTeamsAndMatch"}
          => state'.fallOfWickets = state.fallOfWickets]_vars

\* the last man is out in innings 1: nobody on strike and play stopped
LastManOut(s) ==
  /\ s.lastManStandingMode /\ s.innings = 1
  /\ s.striker = NULL /\ ~s.matchStarted /\ ~s.awaitingNewBatsman

\* C37: after an accepted wicket in Last Man Standing in innings 1 the
\* innings is still 1, striker is null, matchStarted and awaitingNewBatsman
\* are false; from then on no scoring request is accepted, only endInnings
\* or a request that replaces the state changes that, and innings 2 is
\* entered only through endInnings, never in the wicket handler.
C37_LastManOutFirstInnings ==
  [][/\ response'.event = "wicket" /\ Accepted(response')
        /\ state.lastManStandingMode /\ state.innings = 1
          => LastManOut(state')
     /\ LastManOut(state) /\ response'.event \in ScoringEvents
          => ~Accepted(response')
     /\ LastManOut(state) /\ ~LastManOut(state')
          => response'.event \in {"endInnings", "undo", "createTeams", "reset"}
     /\ state.innings = 1 /\ state'.innings = 2
          => response'.event \in {"endInnings", "undo"}]_vars

\* the last man has just been given out in the first innings
C37_Witness ==
  /\ response.event = "wicket" /\ Accepted(response)
  /\ LastManOut(state)
  /\ state.wickets >= 2

\* name is a batsman marked out in s
IsOut(s, name) == name \in DOMAIN s.players /\ s.players[name].out

\* the batsmen marked out in s
OutPlayers(s) == {name \in DOMAIN s.players : s.players[name].out}

\* C38: in every reachable state neither striker nor nonStriker names a
\* player marked out, and wickets equals the number of players marked out;
\* changeStrike set_striker and set_non_striker and newBatsman never put a
\* player marked out at the crease.
C38_OutPlayerOffTheCrease ==
  /\ ~IsOut(state, state.striker)
  /\ ~IsOut(state, state.nonStriker)
  /\ state.wickets = Cardinality(OutPlayers(state))

\* scoring requests pass the guards on matchStarted and the two pause flags
ScoringPermitted(s) ==
  s.matchStarted /\ ~s.awaitingNewBatsman /\ ~s.awaitingNewBowler

\* C39: whenever scoring is permitted striker is non-null: outside Last Man
\* Standing neither a strike rotation of run or extras nor a newBatsman that
\* promotes the non-striker moves a null non-striker to the striker's end.
C39_StrikerPresentWhenScoring ==
  ScoringPermitted(state) => state.striker # NULL

\* runsConceded summed over the first n entries of the bowlers list of s
RECURSIVE SumRunsConceded(_, _)
SumRunsConceded(s, n) ==
  IF n = 0 THEN 0 ELSE SumRunsConceded(s, n - 1) + s.bowlers[n].runsConceded

\* wickets summed over the first n entries of the bowlers list of s
RECURSIVE SumBowlerWickets(_, _)
SumBowlerWickets(s, n) ==
  IF n = 0 THEN 0 ELSE SumBowlerWickets(s, n - 1) + s.bowlers[n].wickets

\* C40: in every reachable state score equals the sum of runsConceded over
\* the bowlers list and wickets equals the sum of the bowlers' wickets.
C40_RunConservation ==
  /\ state.score = SumRunsConceded(state, Len(state.bowlers))
  /\ state.wickets = SumBowlerWickets(state, Len(state.bowlers))
=============================================================================
